---- MODULE Spec2Model ----
(***************************************************************************)
(* pip._internal.metadata.base: BaseEnvironment.iter_distributions() and   *)
(* BaseEnvironment.iter_installed_distributions().                         *)
(*                                                                         *)
(* A canonical_name is a sequence of one-character strings, so that the    *)
(* regular expression of iter_distributions() is computed character by     *)
(* character.  A generator is modelled by its resumption: one Pull is one  *)
(* next() by the consumer on the object the call returned.                 *)
(***************************************************************************)
EXTENDS Integers, Sequences, FiniteSets, TLC

VARIABLES hook, raw, call, it, status, pos, out, warnings, pulls

vars == <<hook, raw, call, it, status, pos, out, warnings, pulls>>

\* ------------------------------------------------------------------ bounds
MaxRaw == 2
MaxNameLen == 3

\* -------------------------------------------------------------- characters
AsciiLetters ==
  {"a","b","c","d","e","f","g","h","i","j","k","l","m",
   "n","o","p","q","r","s","t","u","v","w","x","y","z",
   "A","B","C","D","E","F","G","H","I","J","K","L","M",
   "N","O","P","Q","R","S","T","U","V","W","X","Y","Z"}

Digits == {"0","1","2","3","4","5","6","7","8","9"}

\* The four non-ASCII letters that the class [A-Z] also matches under
\* re.IGNORECASE on a str pattern (their case mapping lands in the ASCII
\* letters), named by code point.
IgnoreCaseExtra == {"U+0130", "U+0131", "U+017F", "U+212A"}

\* [A-Z0-9] with flags=re.IGNORECASE
AlnumClass == AsciiLetters \cup Digits \cup IgnoreCaseExtra

\* [A-Z0-9._-] with flags=re.IGNORECASE
MiddleClass == AlnumClass \cup {".", "_", "-"}

\* ([A-Z0-9]|[A-Z0-9][A-Z0-9._-]*[A-Z0-9]) matched against the whole of s
BodyMatch(s) ==
  /\ Len(s) >= 1
  /\ s[1] \in AlnumClass
  /\ s[Len(s)] \in AlnumClass
  /\ \A i \in 1..Len(s) : s[i] \in MiddleClass

\* re.match(r"^(...)$", s, flags=re.IGNORECASE): "$" matches at the end of
\* the string and also just before a line feed that ends the string.
project_name_valid(s) ==
  \/ BodyMatch(s)
  \/ /\ Len(s) >= 2
     /\ s[Len(s)] = "\n"
     /\ BodyMatch(SubSeq(s, 1, Len(s) - 1))

\* ----------------------------------------------------------- distributions
None == "None"

VenvSite == "/venv/lib/site-packages"
UserSite == "~/.local/lib/site-packages"
SystemSite == "/usr/lib/site-packages"

Dist(name, loc, local, editable, in_usersite) ==
  [canonical_name |-> name, location |-> loc, local |-> local,
   editable |-> editable, in_usersite |-> in_usersite]

requests == <<"r","e","q","u","e","s","t","s">>
atplotlib == <<"~","a","t","p","l","o","t","l","i","b">>
pip_tools == <<"p","i","p","-","t","o","o","l","s">>
python == <<"p","y","t","h","o","n">>
wsgiref == <<"w","s","g","i","r","e","f">>
argparse == <<"a","r","g","p","a","r","s","e">>

stdlib_pkgs == {python, wsgiref, argparse}

\* --------------------------------------------------------------- generators
Yield(d, p, w) == [kind |-> "yield", item |-> d, pos |-> p, warnings |-> w]
Stop(p, w) == [kind |-> "stop", item |-> None, pos |-> p, warnings |-> w]
Raise(p, w) == [kind |-> "raise", item |-> None, pos |-> p, warnings |-> w]

\* Variant: the warning names the distribution but not where it was found
Warning_without_location(dist) == <<dist.canonical_name, None>>

\* logger.warning("Ignoring invalid distribution %s (%s)", name, location)
Warning(dist) == <<dist.canonical_name, dist.location>>

\* Variant: a malformed name is reported to the consumer as an error
RECURSIVE iter_distributions_raising(_, _, _, _)
iter_distributions_raising(h, r, p, w) ==
  IF h = "unimplemented" THEN Raise(p, w)
  ELSE IF p = Len(r) THEN (IF h = "raises" THEN Raise(p, w) ELSE Stop(p, w))
  ELSE LET dist == r[p + 1] IN
       IF ~project_name_valid(dist.canonical_name)
       THEN Raise(p + 1, w)
       ELSE Yield(dist, p + 1, w)

\* Variant: the raw items are traversed from the last to the first
RECURSIVE iter_distributions_reversed(_, _, _, _)
iter_distributions_reversed(h, r, p, w) ==
  IF h = "unimplemented" THEN Raise(p, w)
  ELSE IF p = Len(r) THEN (IF h = "raises" THEN Raise(p, w) ELSE Stop(p, w))
  ELSE LET dist == r[Len(r) - p] IN
       IF ~project_name_valid(dist.canonical_name)
       THEN iter_distributions_reversed(h, r, p + 1, Append(w, Warning(dist)))
       ELSE Yield(dist, p + 1, w)

\* Variant: a hook that is not overridden counts as an empty environment
RECURSIVE iter_distributions_empty_default(_, _, _, _)
iter_distributions_empty_default(h, r, p, w) ==
  IF h = "unimplemented" THEN Stop(p, w)
  ELSE IF p = Len(r) THEN (IF h = "raises" THEN Raise(p, w) ELSE Stop(p, w))
  ELSE LET dist == r[p + 1] IN
       IF ~project_name_valid(dist.canonical_name)
       THEN iter_distributions_empty_default(h, r, p + 1, Append(w, Warning(dist)))
       ELSE Yield(dist, p + 1, w)

\* Variant: the raw item after the one to be yielded is fetched ahead
RECURSIVE iter_distributions_prefetch(_, _, _, _)
iter_distributions_prefetch(h, r, p, w) ==
  IF h = "unimplemented" THEN Raise(p, w)
  ELSE IF p = Len(r) THEN (IF h = "raises" THEN Raise(p, w) ELSE Stop(p, w))
  ELSE LET dist == r[p + 1] IN
       IF ~project_name_valid(dist.canonical_name)
       THEN iter_distributions_prefetch(h, r, p + 1, Append(w, Warning(dist)))
       ELSE Yield(dist, IF p + 2 <= Len(r) THEN p + 2 ELSE p + 1, w)

\* Variant: the local flag is tested before the name is validated
RECURSIVE iter_distributions_local_first(_, _, _, _)
iter_distributions_local_first(h, r, p, w) ==
  IF h = "unimplemented" THEN Raise(p, w)
  ELSE IF p = Len(r) THEN (IF h = "raises" THEN Raise(p, w) ELSE Stop(p, w))
  ELSE LET dist == r[p + 1] IN
       IF ~dist.local
       THEN iter_distributions_local_first(h, r, p + 1, w)
       ELSE IF ~project_name_valid(dist.canonical_name)
       THEN iter_distributions_local_first(h, r, p + 1, Append(w, Warning(dist)))
       ELSE Yield(dist, p + 1, w)

\* One resumption of the generator iter_distributions(): h is the raw hook
\* (not overridden, returning after r, or raising after r), r the items the
\* hook yields, p how many of them have been read, w the log so far.
RECURSIVE iter_distributions(_, _, _, _)
iter_distributions(h, r, p, w) ==
  IF h = "unimplemented" THEN Raise(p, w)
  ELSE IF p = Len(r) THEN (IF h = "raises" THEN Raise(p, w) ELSE Stop(p, w))
  ELSE LET dist == r[p + 1] IN
       IF ~project_name_valid(dist.canonical_name)
       THEN iter_distributions(h, r, p + 1, Append(w, Warning(dist)))
       ELSE Yield(dist, p + 1, w)

\* The condition of one generator expression of iter_installed_distributions
Keeps(stage, d) ==
  CASE stage.kind = "local" -> d.local
    [] stage.kind = "not_editable" -> ~d.editable
    [] stage.kind = "editable" -> d.editable
    [] stage.kind = "in_usersite" -> d.in_usersite
    [] stage.kind = "skip" -> d.canonical_name \notin stage.skip

\* One resumption of the k-th generator of the chain g (k = 0 is
\* iter_distributions() itself): (d for d in it if cond).
RECURSIVE gen_next(_, _, _, _, _, _)
gen_next(g, k, h, r, p, w) ==
  IF k = 0 THEN iter_distributions(h, r, p, w)
  ELSE LET x == gen_next(g, k - 1, h, r, p, w) IN
       IF x.kind # "yield" THEN x
       ELSE IF Keeps(g[k], x.item) THEN x
       ELSE gen_next(g, k, h, r, x.pos, x.warnings)

\* Variant: the skip set is not applied
installed_without_skip(local_only, skip, include_editables, editables_only, user_only) ==
  (IF local_only THEN <<[kind |-> "local"]>> ELSE <<>>)
  \o (IF ~include_editables THEN <<[kind |-> "not_editable"]>> ELSE <<>>)
  \o (IF editables_only THEN <<[kind |-> "editable"]>> ELSE <<>>)
  \o (IF user_only THEN <<[kind |-> "in_usersite"]>> ELSE <<>>)

\* Variant: user_only replaces the local filter instead of adding to it
installed_user_overrides_local(local_only, skip, include_editables, editables_only, user_only) ==
  (IF local_only /\ ~user_only THEN <<[kind |-> "local"]>> ELSE <<>>)
  \o (IF ~include_editables THEN <<[kind |-> "not_editable"]>> ELSE <<>>)
  \o (IF editables_only THEN <<[kind |-> "editable"]>> ELSE <<>>)
  \o (IF user_only THEN <<[kind |-> "in_usersite"]>> ELSE <<>>)
  \o <<[kind |-> "skip", skip |-> skip]>>

\* Variant: include_editables=False only takes effect without editables_only
installed_editables_only_wins(local_only, skip, include_editables, editables_only, user_only) ==
  (IF local_only THEN <<[kind |-> "local"]>> ELSE <<>>)
  \o (IF ~include_editables /\ ~editables_only
      THEN <<[kind |-> "not_editable"]>> ELSE <<>>)
  \o (IF editables_only THEN <<[kind |-> "editable"]>> ELSE <<>>)
  \o (IF user_only THEN <<[kind |-> "in_usersite"]>> ELSE <<>>)
  \o <<[kind |-> "skip", skip |-> skip]>>

\* The chain of generator expressions iter_installed_distributions() builds
iter_installed_distributions(local_only, skip, include_editables, editables_only, user_only) ==
  (IF local_only THEN <<[kind |-> "local"]>> ELSE <<>>)
  \o (IF ~include_editables THEN <<[kind |-> "not_editable"]>> ELSE <<>>)
  \o (IF editables_only THEN <<[kind |-> "editable"]>> ELSE <<>>)
  \o (IF user_only THEN <<[kind |-> "in_usersite"]>> ELSE <<>>)
  \o <<[kind |-> "skip", skip |-> skip]>>

\* ------------------------------------------------------------------ inputs
Alphabet == {"a", "Z", "0", ".", "_", "-", "~", "\n"}

Strings == UNION {[1..n -> Alphabet] : n \in 0..MaxNameLen}

SiteOf(local, in_usersite) ==
  IF in_usersite THEN UserSite ELSE IF local THEN VenvSite ELSE SystemSite

\* requests with every combination of the flags; the leftover directory and
\* the standard-library name either in the environment or in the user site
Pool ==
  {Dist(requests, SiteOf(l, u), l, e, u) :
     l \in BOOLEAN, e \in BOOLEAN, u \in BOOLEAN}
  \cup {Dist(atplotlib, SiteOf(l, ~l), l, FALSE, ~l) : l \in BOOLEAN}
  \cup {Dist(python, SiteOf(l, ~l), l, ~l, ~l) : l \in BOOLEAN}

Scenario ==
  << Dist(requests, VenvSite, TRUE, FALSE, FALSE),
     Dist(atplotlib, VenvSite, TRUE, FALSE, FALSE),
     Dist(pip_tools, UserSite, FALSE, TRUE, TRUE) >>

SkipChoices == {stdlib_pkgs, {requests}}

Hooks == {"unimplemented", "returns", "raises"}

\* ------------------------------------------------------------ state machine
Idle ==
  /\ call = [method |-> "none"]
  /\ it = <<>>
  /\ status = "idle"
  /\ pos = 0
  /\ out = <<>>
  /\ warnings = <<>>
  /\ pulls = 0

InitPool ==
  /\ hook \in {"returns", "raises"}
  /\ raw \in UNION {[1..n -> Pool] : n \in 0..MaxRaw}

InitNames ==
  /\ hook = "returns"
  /\ \E s \in Strings : raw = <<Dist(s, None, TRUE, FALSE, FALSE)>>

InitScenario ==
  /\ hook = "returns"
  /\ raw = Scenario

InitUnimplemented ==
  /\ hook = "unimplemented"
  /\ raw = <<>>

Init ==
  /\ Idle
  /\ (InitPool \/ InitScenario \/ InitUnimplemented)

\* One raw item, its canonical_name any string over Alphabet
InitOneName ==
  /\ Idle
  /\ InitNames

\* env.iter_distributions(): a generator function, the call runs none of it
CallIterDistributions ==
  /\ status = "idle"
  /\ call' = [method |-> "iter_distributions"]
  /\ it' = <<>>
  /\ status' = "created"
  /\ UNCHANGED <<hook, raw, pos, out, warnings, pulls>>

\* env.iter_installed_distributions(...): builds the chain and returns it
CallIterInstalledDistributions ==
  /\ status = "idle"
  /\ \E lo \in BOOLEAN, ie \in BOOLEAN, eo \in BOOLEAN, uo \in BOOLEAN,
        sk \in SkipChoices :
       /\ call' = [method |-> "iter_installed_distributions",
                   local_only |-> lo, skip |-> sk, include_editables |-> ie,
                   editables_only |-> eo, user_only |-> uo]
       /\ it' = iter_installed_distributions(lo, sk, ie, eo, uo)
  /\ status' = "created"
  /\ UNCHANGED <<hook, raw, pos, out, warnings, pulls>>

\* next() on the returned iterator
Pull ==
  /\ status \in {"created", "suspended"}
  /\ LET x == gen_next(it, Len(it), hook, raw, pos, warnings) IN
       /\ pos' = x.pos
       /\ warnings' = x.warnings
       /\ out' = IF x.kind = "yield" THEN Append(out, x.item) ELSE out
       /\ status' = CASE x.kind = "yield" -> "suspended"
                      [] x.kind = "stop" -> "exhausted"
                      [] x.kind = "raise" -> "raised"
  /\ pulls' = pulls + 1
  /\ UNCHANGED <<hook, raw, call, it>>

Next ==
  \/ CallIterDistributions
  \/ CallIterInstalledDistributions
  \/ Pull

Spec == Init /\ [][Next]_vars

SpecOneName == InitOneName /\ [][Next]_vars

TypeOK ==
  /\ hook \in Hooks
  /\ status \in {"idle", "created", "suspended", "exhausted", "raised"}
  /\ pos \in 0..Len(raw)
  /\ pulls \in Nat

\* ------------------------------------------------------- stating the claims
IterDist == call.method = "iter_distributions"
IterInstalled == call.method = "iter_installed_distributions"

\* The whole of s matches ^[A-Za-z0-9]([A-Za-z0-9._-]*[A-Za-z0-9])?$
Pep508FullMatch(s) ==
  /\ Len(s) >= 1
  /\ s[1] \in AsciiLetters \cup Digits
  /\ s[Len(s)] \in AsciiLetters \cup Digits
  /\ \A i \in 1..Len(s) : s[i] \in AsciiLetters \cup Digits \cup {".", "_", "-"}

Pep508Dist(d) == Pep508FullMatch(d.canonical_name)

\* The name check of iter_distributions() rejects d
Malformed(d) == ~project_name_valid(d.canonical_name)
WellFormed(d) == ~Malformed(d)

\* What the log holds for the items of s, one record for each
LogOf(s) == [i \in 1..Len(s) |-> <<s[i].canonical_name, s[i].location>>]

\* The conjunction of the filters the parameters of the call enable
Wanted(d) ==
  /\ call.local_only => d.local
  /\ ~call.include_editables => ~d.editable
  /\ call.editables_only => d.editable
  /\ call.user_only => d.in_usersite
  /\ d.canonical_name \notin call.skip

Survives(d) == WellFormed(d) /\ (IterInstalled => Wanted(d))

\* o is a subsequence of r: the items of o, in order, at increasing places
RECURSIVE IsSubseq(_, _)
IsSubseq(o, r) ==
  IF o = <<>> THEN TRUE
  ELSE IF r = <<>> THEN FALSE
  ELSE IF Head(o) = Head(r) THEN IsSubseq(Tail(o), Tail(r))
  ELSE IsSubseq(o, Tail(r))

\* A full consumption of the chain g over the raw items r
RECURSIVE Drain(_, _, _, _, _, _)
Drain(g, h, r, p, w, o) ==
  LET x == gen_next(g, Len(g), h, r, p, w) IN
    IF x.kind = "yield" THEN Drain(g, h, r, x.pos, x.warnings, Append(o, x.item))
    ELSE [out |-> o, warnings |-> x.warnings, kind |-> x.kind]

FullPass(g) == Drain(g, hook, raw, 0, <<>>, <<>>)

\* The orders in which n generator expressions can be chained
Orders == [n \in 0..5 |-> {f \in [1..n -> 1..n] : \A i, j \in 1..n : f[i] = f[j] => i = j}]

Reordered(g, f) == [i \in 1..Len(g) |-> g[f[i]]]

\* The items of s that the filters of g keep, applied one after the other
RECURSIVE Filtered(_, _)
Filtered(g, s) ==
  IF g = <<>> THEN s
  ELSE LET Test(d) == Keeps(Head(g), d) IN Filtered(Tail(g), SelectSeq(s, Test))

Defaults ==
  [method |-> "iter_installed_distributions", local_only |-> TRUE,
   skip |-> stdlib_pkgs, include_editables |-> TRUE,
   editables_only |-> FALSE, user_only |-> FALSE]

LocalNotStdlib(d) == d.local /\ d.canonical_name \notin stdlib_pkgs

Done == status = "exhausted"

\* C1: a full pass of iter_distributions() yields a raw item if and only if
\* the whole of its canonical_name matches
\* ^[A-Za-z0-9]([A-Za-z0-9._-]*[A-Za-z0-9])?$, and drops every other item.
C1_YieldedIffFullMatch ==
  (IterDist /\ Done) => out = SelectSeq(raw, Pep508Dist)

\* C2: a fully consumed iter_installed_distributions() yields exactly the
\* items of iter_distributions() that satisfy the conjunction of the enabled
\* filters, chaining the filters in any other order gives the same items, and
\* with all defaults these are the validated items that are local and whose
\* name is not in the standard-library skip set.
C2_ConjunctionOfFilters ==
  (IterInstalled /\ Done) =>
     LET validated == FullPass(<<>>).out IN
       /\ out = SelectSeq(validated, Wanted)
       /\ \A f \in Orders[Len(it)] : Filtered(Reordered(it, f), validated) = out
       /\ call = Defaults => out = SelectSeq(validated, LocalNotStdlib)

C2_Witness ==
  /\ IterInstalled /\ Done /\ hook = "returns"
  /\ Len(it) >= 3
  /\ Len(out) >= 1
  /\ Len(out) < Len(FullPass(<<>>).out)

\* C3 (as claimed): in the environment requests, ~atplotlib, pip-tools,
\* iter_installed_distributions(user_only=True) with every other parameter at
\* its default yields exactly pip-tools.
UserOnlyCall == call = [Defaults EXCEPT !.user_only = TRUE]

C3_UserOnlyYieldsPipTools ==
  (raw = Scenario /\ UserOnlyCall /\ Done) => out = <<Scenario[3]>>

\* C3 (amended): in that environment iter_installed_distributions(
\* user_only=True) with every other parameter at its default yields nothing,
\* because local_only defaults to True and pip-tools is not local; with
\* local_only=False as well it yields exactly pip-tools.
C3_UserOnlyKeepsLocalFilter ==
  /\ (raw = Scenario /\ UserOnlyCall /\ Done) => out = <<>>
  /\ (/\ raw = Scenario /\ Done
      /\ call = [Defaults EXCEPT !.user_only = TRUE, !.local_only = FALSE])
       => out = <<Scenario[3]>>

C3_Witness == raw = Scenario /\ UserOnlyCall /\ Done /\ pos = 3

\* C4: iter_distributions() never raises because of a malformed name: an
\* error reaches the consumer only if the raw hook raised, and when the hook
\* does not raise the pass ends normally having read every raw item, skipped
\* the malformed ones and yielded every valid one.
C4_NoErrorFromMalformedName ==
  /\ status = "raised" => (hook # "returns" /\ pos = Len(raw))
  /\ (IterDist /\ Done) =>
        (hook = "returns" /\ pos = Len(raw) /\ out = SelectSeq(raw, WellFormed))

C4_Witness ==
  /\ IterDist /\ Done /\ Len(raw) >= 2
  /\ Malformed(raw[1])
  /\ out = <<raw[2]>>

\* C5: during a pass of iter_distributions() each dropped item gets exactly
\* one warning with its canonical_name and location, in raw order, and no
\* yielded item gets one; after the pass there are as many warnings as
\* malformed raw items and warnings plus yielded items is the raw item count.
C5_OneWarningPerDroppedItem ==
  IterDist =>
     /\ warnings = LogOf(SelectSeq(SubSeq(raw, 1, pos), Malformed))
     /\ \A i \in 1..Len(out) : WellFormed(out[i])
     /\ Done =>
          /\ Len(warnings) = Cardinality({i \in 1..Len(raw) : Malformed(raw[i])})
          /\ Len(warnings) + Len(out) = Len(raw)

C5_Witness ==
  /\ IterDist /\ Done /\ Len(raw) >= 2
  /\ Malformed(raw[1]) /\ Malformed(raw[2])
  /\ raw[1].canonical_name = raw[2].canonical_name
  /\ raw[1].location # raw[2].location
  /\ Len(warnings) = 2

\* C6: iter_installed_distributions(include_editables=False,
\* editables_only=True) yields no item, whatever the raw sequence and the
\* other parameters.
C6_ContradictoryEditableFlags ==
  (IterInstalled /\ ~call.include_editables /\ call.editables_only)
     => out = <<>>

C6_Witness ==
  /\ IterInstalled /\ ~call.include_editables /\ call.editables_only
  /\ ~call.local_only /\ ~call.user_only
  /\ Done /\ Len(raw) >= 2
  /\ \E i, j \in 1..Len(raw) :
       /\ WellFormed(raw[i]) /\ raw[i].editable
       /\ raw[i].canonical_name \notin call.skip
       /\ WellFormed(raw[j]) /\ ~raw[j].editable
       /\ raw[j].canonical_name \notin call.skip

\* C7: what either method has yielded is a subsequence of what the raw hook
\* has produced so far: same relative order, nothing the hook did not
\* produce, nothing more often than the hook produced it.
C7_OutputIsSubsequence ==
  status # "idle" => IsSubseq(out, SubSeq(raw, 1, pos))

C7_Witness ==
  /\ Len(out) >= 2
  /\ out[1] # out[2]
  /\ out[1].canonical_name = out[2].canonical_name

\* C8 (as claimed): with the raw hook not overridden, the failure occurs at
\* the call of iter_distributions() / iter_installed_distributions() itself,
\* before any pull.
C8_FailsAtTheCall ==
  (hook = "unimplemented" /\ status # "idle") => (status = "raised" /\ pulls = 0)

\* C8 (amended): with the raw hook not overridden, the call itself returns an
\* iterator without failing; the failure is raised by the first pull from
\* that iterator, and no item is ever yielded.
C8_FailsAtFirstPull ==
  hook = "unimplemented" =>
     /\ out = <<>> /\ pos = 0 /\ warnings = <<>>
     /\ status \in {"idle", "created", "raised"}
     /\ status = "created" <=> (call.method # "none" /\ pulls = 0)
     /\ status = "raised" <=> pulls = 1

C8_Witness == hook = "unimplemented" /\ status = "raised" /\ IterInstalled

\* C9: enumeration is pull-driven with no lookahead: the call reads nothing
\* from the raw hook, and after each pull the raw hook has been read exactly
\* up to the item that produced the last output (or to its end), so items
\* after it have not been read, validated or warned about.
C9_NoLookahead ==
  /\ status = "created" => (pos = 0 /\ out = <<>> /\ warnings = <<>>)
  /\ status = "suspended" =>
        (pos >= 1 /\ out # <<>> /\ out[Len(out)] = raw[pos] /\ Len(out) = pulls)
  /\ status \in {"exhausted", "raised"} => (pos = Len(raw) /\ Len(out) = pulls - 1)
  /\ status # "idle" =>
        /\ out = SelectSeq(SubSeq(raw, 1, pos), Survives)
        /\ Len(warnings) = Cardinality({i \in 1..pos : Malformed(raw[i])})

C9_Witness ==
  /\ IterInstalled /\ status = "suspended" /\ pulls = 1
  /\ pos = 1 /\ Len(raw) = 2
  /\ Malformed(raw[2])
  /\ warnings = <<>>

\* C10: validation precedes filtering: for every parameter combination a
\* fully consumed iter_installed_distributions() logs the same warnings, in
\* the same order, as a fully consumed iter_distributions() over the same raw
\* sequence: one for each malformed raw item, whatever its flags.
C10_SameWarningsAsValidation ==
  (IterInstalled /\ status \in {"exhausted", "raised"}) =>
     /\ warnings = FullPass(<<>>).warnings
     /\ warnings = LogOf(SelectSeq(raw, Malformed))

C10_Witness ==
  /\ IterInstalled /\ Done /\ call.local_only /\ call.editables_only
  /\ Len(raw) >= 2
  /\ Malformed(raw[1]) /\ ~raw[1].local /\ ~raw[1].editable
  /\ Len(warnings) >= 1
  /\ Len(out) >= 1
====
